---- MODULE Spec2Model ----
(***************************************************************************)
(* A model of the DLT codec of dlt-parse-rs: the header codec              *)
(* (DltHeader::read / DltHeader::write), the packet slice                  *)
(* (DltPacketSlice::from_slice, header, payload, slice), the slice         *)
(* iterator (SliceIterator::next) and the verbose field cursor             *)
(* (FieldSlicer).                                                          *)
(*                                                                         *)
(* Bytes are the integers 0..255.  A u16 is an integer 0..65535.  A u32    *)
(* is kept as the pair <<hi, lo>> of its two 16-bit halves (value =        *)
(* hi * 65536 + lo), because the model checker's integers are 32-bit       *)
(* signed; the big-endian conversions below work on that pair.             *)
(***************************************************************************)
EXTENDS Integers, Sequences, FiniteSets, TLC

\* ------------------------------------------------------------------------
\* Bounds of the model (not program constants)
\* ------------------------------------------------------------------------

\* longest payload appended after an encoded header
MaxPayload == 5

\* longest arbitrary buffer handed to from_slice
MaxBuf == 31

\* most messages serialized into one buffer
MaxMsgs == 5

\* longest buffer of arbitrary bytes handed to FieldSlicer::new
MaxData == 4

MaxCalls == 3

\* usize::MAX of the modelled target: the word is kept at 20 bits so that
\* sums stay within the checker's integers; every u16 length prefix plus
\* its fixed part still fits, as it does in a 32- or 64-bit usize
USIZE_MAX == 1048575

\* ------------------------------------------------------------------------
\* Program constants (src/src/lib.rs)
\* ------------------------------------------------------------------------

MAX_VERSION == 7

EXTDENDED_HEADER_FLAG == 1

BIG_ENDIAN_FLAG == 2

ECU_ID_FLAG == 4

SESSION_ID_FLAG == 8

TIMESTAMP_FLAG == 16

\* ------------------------------------------------------------------------
\* Option<T>
\* ------------------------------------------------------------------------

None == [some |-> FALSE]

Some(v) == [some |-> TRUE, value |-> v]

\* ------------------------------------------------------------------------
\* Bit and byte helpers
\* ------------------------------------------------------------------------

\* 0 != x & flag, for a flag that is a single bit
HasFlag(x, flag) == (x \div flag) % 2 = 1

\* a write_u16 that emits the low byte first
BE16Bytes_LittleEndian(v) == <<v % 256, v \div 256>>

\* byteorder::BigEndian write_u16
BE16Bytes(v) == <<v \div 256, v % 256>>

\* byteorder::BigEndian write_u32, on the <<hi, lo>> pair
BE32Bytes(v) == BE16Bytes(v[1]) \o BE16Bytes(v[2])

\* byteorder::BigEndian read_u16 of a 2-byte slice
BE16Read(b) == b[1] * 256 + b[2]

\* byteorder::BigEndian read_u32 of a 4-byte slice, as the <<hi, lo>> pair
BE32Read(b) == <<b[1] * 256 + b[2], b[3] * 256 + b[4]>>

\* &s[from..to] with Rust's half-open, zero-based indices
Slice(s, from, to) == SubSeq(s, from + 1, to)

\* ------------------------------------------------------------------------
\* io::Write sinks: a Vec<u8> grows without limit, a Cursor over a fixed
\* slice accepts bytes until the slice is full and then fails
\* ------------------------------------------------------------------------

Unlimited == -1

VecSink == [bytes |-> <<>>, cap |-> Unlimited]

FixedSink(n) == [bytes |-> <<>>, cap |-> n]

\* write_all of the bytes bs
WriteAll(s, bs) ==
    IF s.cap = Unlimited \/ Len(s.bytes) + Len(bs) <= s.cap
    THEN [ok |-> TRUE, sink |-> [s EXCEPT !.bytes = @ \o bs]]
    ELSE [ok |-> FALSE,
          sink |-> [s EXCEPT !.bytes = @ \o SubSeq(bs, 1, s.cap - Len(s.bytes))]]

\* the writes of a list of chunks, one write call per chunk, stopping at
\* the first one that fails (the `?` after each write call)
RECURSIVE WriteChunks(_, _)
WriteChunks(s, chunks) ==
    IF chunks = <<>>
    THEN [ok |-> TRUE, sink |-> s]
    ELSE LET w == WriteAll(s, Head(chunks))
         IN  IF w.ok THEN WriteChunks(w.sink, Tail(chunks)) ELSE w

\* ------------------------------------------------------------------------
\* DltHeader
\* ------------------------------------------------------------------------

\* a header_len that forgets the session id
header_len_NoSessionId(h) ==
    4 + (IF h.ecu_id.some THEN 4 ELSE 0)
      + (IF h.timestamp.some THEN 4 ELSE 0)
      + (IF h.extended_header.some THEN 10 ELSE 0)

\* DltHeader::header_len
header_len(h) ==
    4 + (IF h.ecu_id.some THEN 4 ELSE 0)
      + (IF h.session_id.some THEN 4 ELSE 0)
      + (IF h.timestamp.some THEN 4 ELSE 0)
      + (IF h.extended_header.some THEN 10 ELSE 0)

\* a header type that leaves out the big endian flag
HeaderTypeByte_NoBigEndian(h) ==
      (IF h.extended_header.some THEN EXTDENDED_HEADER_FLAG ELSE 0)
    + (IF h.ecu_id.some THEN ECU_ID_FLAG ELSE 0)
    + (IF h.session_id.some THEN SESSION_ID_FLAG ELSE 0)
    + (IF h.timestamp.some THEN TIMESTAMP_FLAG ELSE 0)
    + (((h.version * 32) % 256) \div 32) * 32

\* the header-type bitfield built by DltHeader::write
HeaderTypeByte(h) ==
      (IF h.extended_header.some THEN EXTDENDED_HEADER_FLAG ELSE 0)
    + (IF h.big_endian THEN BIG_ENDIAN_FLAG ELSE 0)
    + (IF h.ecu_id.some THEN ECU_ID_FLAG ELSE 0)
    + (IF h.session_id.some THEN SESSION_ID_FLAG ELSE 0)
    + (IF h.timestamp.some THEN TIMESTAMP_FLAG ELSE 0)
    + (((h.version * 32) % 256) \div 32) * 32

\* the write calls with the session id written before the ecu id
HeaderChunks_SessionIdFirst(h) ==
    <<  <<HeaderTypeByte(h)>>, <<h.message_counter>>, BE16Bytes(h.length) >>
    \o (IF h.session_id.some THEN << BE32Bytes(h.session_id.value) >> ELSE <<>>)
    \o (IF h.ecu_id.some THEN << BE32Bytes(h.ecu_id.value) >> ELSE <<>>)
    \o (IF h.timestamp.some THEN << BE32Bytes(h.timestamp.value) >> ELSE <<>>)
    \o (IF h.extended_header.some
        THEN << <<h.extended_header.value.message_info>>,
                <<h.extended_header.value.number_of_arguments>>,
                BE32Bytes(h.extended_header.value.application_id),
                BE32Bytes(h.extended_header.value.context_id) >>
        ELSE <<>>)

\* the write calls DltHeader::write makes after the version check
HeaderChunks(h) ==
    <<  <<HeaderTypeByte(h)>>, <<h.message_counter>>, BE16Bytes(h.length) >>
    \o (IF h.ecu_id.some THEN << BE32Bytes(h.ecu_id.value) >> ELSE <<>>)
    \o (IF h.session_id.some THEN << BE32Bytes(h.session_id.value) >> ELSE <<>>)
    \o (IF h.timestamp.some THEN << BE32Bytes(h.timestamp.value) >> ELSE <<>>)
    \o (IF h.extended_header.some
        THEN << <<h.extended_header.value.message_info>>,
                <<h.extended_header.value.number_of_arguments>>,
                BE32Bytes(h.extended_header.value.application_id),
                BE32Bytes(h.extended_header.value.context_id) >>
        ELSE <<>>)

\* a write that checks the version after it has written the header type
DltHeaderWrite_CheckAfterHeaderType(h, s) ==
    LET t == WriteAll(s, <<HeaderTypeByte(h)>>) IN
    IF ~t.ok
    THEN [result |-> [kind |-> "IoError"], sink |-> t.sink]
    ELSE IF h.version > MAX_VERSION
    THEN [result |-> [kind |-> "VersionTooLarge", version |-> h.version],
          sink |-> t.sink]
    ELSE LET w == WriteChunks(t.sink, Tail(HeaderChunks(h)))
         IN  [result |-> IF w.ok THEN [kind |-> "Ok"] ELSE [kind |-> "IoError"],
              sink |-> w.sink]

\* DltHeader::write(&self, writer)
DltHeaderWrite(h, s) ==
    IF h.version > MAX_VERSION
    THEN [result |-> [kind |-> "VersionTooLarge", version |-> h.version], sink |-> s]
    ELSE LET w == WriteChunks(s, HeaderChunks(h))
         IN  [result |-> IF w.ok THEN [kind |-> "Ok"] ELSE [kind |-> "IoError"],
              sink |-> w.sink]

\* io::Read::read_exact of n bytes at position pos of a Cursor over src
ReadExact(src, pos, n) ==
    IF pos + n <= Len(src)
    THEN [ok |-> TRUE, bytes |-> Slice(src, pos, pos + n), pos |-> pos + n]
    ELSE [ok |-> FALSE, bytes |-> <<>>, pos |-> pos]

\* an optional u32 of DltHeader::read: read only when the flag is set
ReadOptU32(src, pos, present) ==
    IF present
    THEN LET r == ReadExact(src, pos, 4)
         IN  [ok |-> r.ok, pos |-> r.pos,
              value |-> IF r.ok THEN Some(BE32Read(r.bytes)) ELSE None]
    ELSE [ok |-> TRUE, pos |-> pos, value |-> None]

\* an extended header read that takes a source too short for the 10 bytes
\* as a header without extended header
ReadOptExt_Lenient(src, pos, present) ==
    IF present /\ pos + 10 <= Len(src)
    THEN LET r == ReadExact(src, pos, 10)
         IN  [ok |-> TRUE, pos |-> r.pos,
              value |-> Some([message_info |-> r.bytes[1],
                              number_of_arguments |-> r.bytes[2],
                              application_id |-> BE32Read(Slice(r.bytes, 2, 6)),
                              context_id |-> BE32Read(Slice(r.bytes, 6, 10))])]
    ELSE [ok |-> TRUE, pos |-> pos, value |-> None]

\* the extended header of DltHeader::read: read only when the flag is set
\* (four read calls over consecutive bytes; one of them fails exactly when
\* fewer than 10 bytes are left)
ReadOptExt(src, pos, present) ==
    IF present
    THEN LET r == ReadExact(src, pos, 10)
         IN  [ok |-> r.ok, pos |-> r.pos,
              value |-> IF r.ok
                        THEN Some([message_info |-> r.bytes[1],
                                   number_of_arguments |-> r.bytes[2],
                                   application_id |-> BE32Read(Slice(r.bytes, 2, 6)),
                                   context_id |-> BE32Read(Slice(r.bytes, 6, 10))])
                        ELSE None]
    ELSE [ok |-> TRUE, pos |-> pos, value |-> None]

IoError == [kind |-> "IoError"]

\* DltHeader::read(reader) over a Cursor at position 0 of src
DltHeaderRead(src) ==
    LET t == ReadExact(src, 0, 1) IN
    IF ~t.ok THEN IoError ELSE
    LET header_type == t.bytes[1]
        mc == ReadExact(src, t.pos, 1) IN
    IF ~mc.ok THEN IoError ELSE
    LET len == ReadExact(src, mc.pos, 2) IN
    IF ~len.ok THEN IoError ELSE
    LET ecu == ReadOptU32(src, len.pos, HasFlag(header_type, ECU_ID_FLAG)) IN
    IF ~ecu.ok THEN IoError ELSE
    LET ses == ReadOptU32(src, ecu.pos, HasFlag(header_type, SESSION_ID_FLAG)) IN
    IF ~ses.ok THEN IoError ELSE
    LET ts == ReadOptU32(src, ses.pos, HasFlag(header_type, TIMESTAMP_FLAG)) IN
    IF ~ts.ok THEN IoError ELSE
    LET ext == ReadOptExt(src, ts.pos, HasFlag(header_type, EXTDENDED_HEADER_FLAG)) IN
    IF ~ext.ok THEN IoError ELSE
    [kind |-> "Ok",
     pos |-> ext.pos,
     header |-> [big_endian |-> HasFlag(header_type, BIG_ENDIAN_FLAG),
                 version |-> (header_type \div 32) % (MAX_VERSION + 1),
                 message_counter |-> mc.bytes[1],
                 length |-> BE16Read(len.bytes),
                 ecu_id |-> ecu.value,
                 session_id |-> ses.value,
                 timestamp |-> ts.value,
                 extended_header |-> ext.value]]

\* ExtendedDltHeader::is_verbose: 0 != message_info & 0b1
is_verbose(ext) == HasFlag(ext.message_info, 1)

\* a set_is_verbose that stores the flag as the whole message_info
set_is_verbose_Overwrite(ext, b) ==
    [ext EXCEPT !.message_info = IF b THEN 1 ELSE 0]

\* ExtendedDltHeader::set_is_verbose: message_info |= 0b1 or
\* message_info &= 0b1111_1110
set_is_verbose(ext, b) ==
    IF b
    THEN [ext EXCEPT !.message_info = (@ \div 2) * 2 + 1]
    ELSE [ext EXCEPT !.message_info = (@ \div 2) * 2]

\* a verbose that takes every header with an extended header as verbose
verbose_AnyExtendedHeader(h) ==
    IF ~h.extended_header.some THEN FALSE ELSE TRUE

\* DltHeader::verbose
verbose(h) ==
    IF ~h.extended_header.some
    THEN FALSE
    ELSE is_verbose(h.extended_header.value)

\* ------------------------------------------------------------------------
\* DltPacketSlice
\* ------------------------------------------------------------------------

\* ReadError::UnexpectedEndOfSlice
UnexpectedEndOfSlice(min, actual) ==
    [kind |-> "UnexpectedEndOfSlice", minimum_size |-> min, actual_size |-> actual]

\* ReadError::LengthSmallerThenMinimum
LengthSmallerThenMinimum(required, length) ==
    [kind |-> "LengthSmallerThenMinimum", required_length |-> required, length |-> length]

\* a header size that forgets the timestamp
HeaderSizeOf_NoTimestamp(header_type) ==
    4 + (IF HasFlag(header_type, EXTDENDED_HEADER_FLAG) THEN 10 ELSE 0)
      + (IF HasFlag(header_type, ECU_ID_FLAG) THEN 4 ELSE 0)
      + (IF HasFlag(header_type, SESSION_ID_FLAG) THEN 4 ELSE 0)

\* a header size that counts 12 bytes for the extended header
HeaderSizeOf_Ext12(header_type) ==
    4 + (IF HasFlag(header_type, EXTDENDED_HEADER_FLAG) THEN 12 ELSE 0)
      + (IF HasFlag(header_type, ECU_ID_FLAG) THEN 4 ELSE 0)
      + (IF HasFlag(header_type, SESSION_ID_FLAG) THEN 4 ELSE 0)
      + (IF HasFlag(header_type, TIMESTAMP_FLAG) THEN 4 ELSE 0)

\* the header size DltPacketSlice::from_slice derives from the header type
HeaderSizeOf(header_type) ==
    4 + (IF HasFlag(header_type, EXTDENDED_HEADER_FLAG) THEN 10 ELSE 0)
      + (IF HasFlag(header_type, ECU_ID_FLAG) THEN 4 ELSE 0)
      + (IF HasFlag(header_type, SESSION_ID_FLAG) THEN 4 ELSE 0)
      + (IF HasFlag(header_type, TIMESTAMP_FLAG) THEN 4 ELSE 0)

\* a from_slice that checks the minimum length before the buffer length
from_slice_MinimumFirst(slice) ==
    IF Len(slice) < 4
    THEN UnexpectedEndOfSlice(4, Len(slice))
    ELSE LET length == BE16Read(Slice(slice, 2, 4))
             header_size == HeaderSizeOf(slice[1]) IN
         IF length < header_size + 4
         THEN LengthSmallerThenMinimum(header_size + 4, length)
         ELSE IF Len(slice) < length
              THEN UnexpectedEndOfSlice(length, Len(slice))
              ELSE [kind |-> "Ok",
                    slice |-> Slice(slice, 0, length),
                    header_size |-> header_size]

\* a from_slice that forgets the 4 bytes of minimum payload
from_slice_NoMinimumPayload(slice) ==
    IF Len(slice) < 4
    THEN UnexpectedEndOfSlice(4, Len(slice))
    ELSE LET length == BE16Read(Slice(slice, 2, 4)) IN
         IF Len(slice) < length
         THEN UnexpectedEndOfSlice(length, Len(slice))
         ELSE LET header_size == HeaderSizeOf(slice[1]) IN
              IF length < header_size
              THEN LengthSmallerThenMinimum(header_size + 4, length)
              ELSE [kind |-> "Ok",
                    slice |-> Slice(slice, 0, length),
                    header_size |-> header_size]

\* a from_slice that keeps the whole buffer instead of its first length bytes
from_slice_WholeBuffer(slice) ==
    IF Len(slice) < 4
    THEN UnexpectedEndOfSlice(4, Len(slice))
    ELSE LET length == BE16Read(Slice(slice, 2, 4)) IN
         IF Len(slice) < length
         THEN UnexpectedEndOfSlice(length, Len(slice))
         ELSE LET header_size == HeaderSizeOf(slice[1]) IN
              IF length < header_size + 4
              THEN LengthSmallerThenMinimum(header_size + 4, length)
              ELSE [kind |-> "Ok",
                    slice |-> slice,
                    header_size |-> header_size]

\* a from_slice without the check of the declared length against the
\* header size
from_slice_NoMinimumCheck(slice) ==
    IF Len(slice) < 4
    THEN UnexpectedEndOfSlice(4, Len(slice))
    ELSE LET length == BE16Read(Slice(slice, 2, 4)) IN
         IF Len(slice) < length
         THEN UnexpectedEndOfSlice(length, Len(slice))
         ELSE [kind |-> "Ok",
               slice |-> Slice(slice, 0, length),
               header_size |-> HeaderSizeOf(slice[1])]

\* DltPacketSlice::from_slice(slice)
from_slice(slice) ==
    IF Len(slice) < 4
    THEN UnexpectedEndOfSlice(4, Len(slice))
    ELSE LET length == BE16Read(Slice(slice, 2, 4)) IN
         IF Len(slice) < length
         THEN UnexpectedEndOfSlice(length, Len(slice))
         ELSE LET header_size == HeaderSizeOf(slice[1]) IN
              IF length < header_size + 4
              THEN LengthSmallerThenMinimum(header_size + 4, length)
              ELSE [kind |-> "Ok",
                    slice |-> Slice(slice, 0, length),
                    header_size |-> header_size]

\* an index or range outside a slice panics
Panic == [kind |-> "Panic"]

\* DltPacketSlice::slice
PacketSlice(p) == p.slice

\* DltPacketSlice::payload: &self.slice[self.header_size..]
PacketPayload(p) ==
    IF p.header_size <= Len(p.slice)
    THEN [kind |-> "Ok", value |-> Slice(p.slice, p.header_size, Len(p.slice))]
    ELSE Panic

\* an optional u32 that is read without moving past its 4 bytes
TakeOptU32_NoAdvance(s, present) ==
    IF ~present
    THEN [ok |-> TRUE, value |-> None, rest |-> s]
    ELSE IF Len(s) >= 4
         THEN [ok |-> TRUE, value |-> Some(BE32Read(Slice(s, 0, 4))), rest |-> s]
         ELSE [ok |-> FALSE, value |-> None, rest |-> s]

\* one optional u32 of DltPacketSlice::header: (Some(read_u32(&s[..4])), &s[4..])
\* when the flag is set, (None, s) otherwise
TakeOptU32(s, present) ==
    IF ~present
    THEN [ok |-> TRUE, value |-> None, rest |-> s]
    ELSE IF Len(s) >= 4
         THEN [ok |-> TRUE, value |-> Some(BE32Read(Slice(s, 0, 4))),
               rest |-> Slice(s, 4, Len(s))]
         ELSE [ok |-> FALSE, value |-> None, rest |-> s]

\* DltPacketSlice::header
PacketHeader(p) ==
    IF Len(p.slice) < 4 THEN Panic ELSE
    LET header_type == p.slice[1]
        ecu == TakeOptU32(Slice(p.slice, 4, Len(p.slice)), HasFlag(header_type, ECU_ID_FLAG)) IN
    IF ~ecu.ok THEN Panic ELSE
    LET ses == TakeOptU32(ecu.rest, HasFlag(header_type, SESSION_ID_FLAG)) IN
    IF ~ses.ok THEN Panic ELSE
    LET ts == TakeOptU32(ses.rest, HasFlag(header_type, TIMESTAMP_FLAG)) IN
    IF ~ts.ok THEN Panic ELSE
    IF HasFlag(header_type, EXTDENDED_HEADER_FLAG) /\ Len(ts.rest) < 10 THEN Panic ELSE
    [kind |-> "Ok",
     value |-> [big_endian |-> HasFlag(header_type, BIG_ENDIAN_FLAG),
                version |-> (header_type \div 32) % (MAX_VERSION + 1),
                message_counter |-> p.slice[2],
                length |-> BE16Read(Slice(p.slice, 2, 4)),
                ecu_id |-> ecu.value,
                session_id |-> ses.value,
                timestamp |-> ts.value,
                extended_header |->
                    IF HasFlag(header_type, EXTDENDED_HEADER_FLAG)
                    THEN Some([message_info |-> ts.rest[1],
                               number_of_arguments |-> ts.rest[2],
                               application_id |-> BE32Read(Slice(ts.rest, 2, 6)),
                               context_id |-> BE32Read(Slice(ts.rest, 6, 10))])
                    ELSE None]]

\* ------------------------------------------------------------------------
\* SliceIterator
\* ------------------------------------------------------------------------

\* SliceIterator::new
SliceIteratorNew(slice) == [slice |-> slice]

\* Option::None returned by next
End == [kind |-> "End"]

\* a next that leaves the remaining slice where it is after an error
next_KeepOnError(it) ==
    IF it.slice # <<>>
    THEN LET result == from_slice(it.slice)
         IN  [item |-> result,
              iter |-> IF result.kind = "Ok"
                       THEN [slice |-> Slice(it.slice, Len(PacketSlice(result)), Len(it.slice))]
                       ELSE it]
    ELSE [item |-> End, iter |-> it]

\* a next that moves past the header only
next_SkipHeaderOnly(it) ==
    IF it.slice # <<>>
    THEN LET result == from_slice(it.slice)
         IN  [item |-> result,
              iter |-> IF result.kind = "Ok"
                       THEN [slice |-> Slice(it.slice, result.header_size, Len(it.slice))]
                       ELSE [slice |-> Slice(it.slice, Len(it.slice), Len(it.slice))]]
    ELSE [item |-> End, iter |-> it]

\* SliceIterator::next: the item returned and the iterator afterwards
next(it) ==
    IF it.slice # <<>>
    THEN LET result == from_slice(it.slice)
         IN  [item |-> result,
              iter |-> IF result.kind = "Ok"
                       THEN [slice |-> Slice(it.slice, Len(PacketSlice(result)), Len(it.slice))]
                       ELSE [slice |-> Slice(it.slice, Len(it.slice), Len(it.slice))]]
    ELSE [item |-> End, iter |-> it]

\* ------------------------------------------------------------------------
\* FieldSlicer (src/src/verbose/field_slicer.rs)
\* ------------------------------------------------------------------------

\* FieldSlicer::new
FieldSlicerNew(d, o) == [rest |-> d, offset |-> o]

\* usize addition in a build without overflow checks
WrappingAdd(a, b) == (a + b) % (USIZE_MAX + 1)

\* whether a usize addition overflows
Overflows(a, b) == a + b > USIZE_MAX

\* VerboseDecodeError::UnexpectedEndOfSlice(UnexpectedEndOfSliceError{..})
UnexpectedEndOfSliceError(min, actual) ==
    [kind |-> "UnexpectedEndOfSlice", layer |-> "VerboseValue",
     minimum_size |-> min, actual_size |-> actual]

VariableNameStringMissingNullTermination ==
    [kind |-> "VariableNameStringMissingNullTermination"]

VariableUnitStringMissingNullTermination ==
    [kind |-> "VariableUnitStringMissingNullTermination"]

\* VerboseDecodeError::Utf8
Utf8Error == [kind |-> "Utf8"]

\* a failing call that leaves the cursor alone
Fail(s, err) == [result |-> err, rest |-> s.rest, offset |-> s.offset]

\* the length error of a call that needs m bytes: both sizes are sums with
\* the offset, which panic on overflow when the build checks for it
LengthError(s, m, checks) ==
    IF checks /\ (Overflows(s.offset, m) \/ Overflows(s.offset, Len(s.rest)))
    THEN Fail(s, Panic)
    ELSE Fail(s, UnexpectedEndOfSliceError(WrappingAdd(s.offset, m),
                                           WrappingAdd(s.offset, Len(s.rest))))

\* the end of a successful call: rest moves past c bytes, then offset += c
Advance(s, c, value, checks) ==
    IF checks /\ Overflows(s.offset, c)
    THEN [result |-> Panic, rest |-> Slice(s.rest, c, Len(s.rest)), offset |-> s.offset]
    ELSE [result |-> [kind |-> "Ok", value |-> value],
          rest |-> Slice(s.rest, c, Len(s.rest)),
          offset |-> WrappingAdd(s.offset, c)]

\* u16::from_be_bytes / u16::from_le_bytes
U16FromBytes(b0, b1, is_big_endian) ==
    IF is_big_endian THEN b0 * 256 + b1 ELSE b1 * 256 + b0

\* core::str::from_utf8(..).is_ok()
RECURSIVE Utf8Valid(_)
Utf8Valid(b) ==
    IF b = <<>> THEN TRUE ELSE
    LET x == b[1]
        n == Len(b)
        Cont(i) == i <= n /\ b[i] \in 128..191
        In(i, lo, hi) == i <= n /\ b[i] \in lo..hi
    IN  IF x < 128 THEN Utf8Valid(Tail(b))
        ELSE IF x \in 194..223 THEN Cont(2) /\ Utf8Valid(SubSeq(b, 3, n))
        ELSE IF x = 224 THEN In(2, 160, 191) /\ Cont(3) /\ Utf8Valid(SubSeq(b, 4, n))
        ELSE IF x \in (225..236) \cup {238, 239}
             THEN Cont(2) /\ Cont(3) /\ Utf8Valid(SubSeq(b, 4, n))
        ELSE IF x = 237 THEN In(2, 128, 159) /\ Cont(3) /\ Utf8Valid(SubSeq(b, 4, n))
        ELSE IF x = 240
             THEN In(2, 144, 191) /\ Cont(3) /\ Cont(4) /\ Utf8Valid(SubSeq(b, 5, n))
        ELSE IF x \in 241..243
             THEN Cont(2) /\ Cont(3) /\ Cont(4) /\ Utf8Valid(SubSeq(b, 5, n))
        ELSE IF x = 244
             THEN In(2, 128, 143) /\ Cont(3) /\ Cont(4) /\ Utf8Valid(SubSeq(b, 5, n))
        ELSE FALSE

\* FieldSlicer::read_u8
read_u8(s, checks) ==
    IF Len(s.rest) < 1
    THEN LengthError(s, 1, checks)
    ELSE Advance(s, 1, s.rest[1], checks)

\* FieldSlicer::read_2bytes
read_2bytes(s, checks) ==
    IF Len(s.rest) < 2
    THEN LengthError(s, 2, checks)
    ELSE Advance(s, 2, <<s.rest[1], s.rest[2]>>, checks)

\* FieldSlicer::read_u16
read_u16(s, is_big_endian, checks) ==
    LET r == read_2bytes(s, checks)
    IN  IF r.result.kind = "Ok"
        THEN [r EXCEPT !.result.value = U16FromBytes(@[1], @[2], is_big_endian)]
        ELSE r

\* a ReadString that validates the UTF-8 before it looks at the terminator
ReadString_Utf8First(s, at, length, missing) ==
    IF length > 0
    THEN LET raw == Slice(s.rest, at, at + length - 1)
             last == s.rest[at + length]
         IN  IF ~Utf8Valid(raw) THEN [ok |-> FALSE, err |-> Utf8Error]
             ELSE IF last # 0 THEN [ok |-> FALSE, err |-> missing]
             ELSE [ok |-> TRUE, value |-> raw]
    ELSE [ok |-> TRUE, value |-> <<>>]

\* a length-prefixed, null-terminated string of read_var_name and
\* read_var_name_and_unit: the length bytes start at position at of rest;
\* missing is the error of a missing null termination
ReadString(s, at, length, missing) ==
    IF length > 0
    THEN LET raw == Slice(s.rest, at, at + length - 1)
             last == s.rest[at + length]
         IN  IF last # 0 THEN [ok |-> FALSE, err |-> missing]
             ELSE IF ~Utf8Valid(raw) THEN [ok |-> FALSE, err |-> Utf8Error]
             ELSE [ok |-> TRUE, value |-> raw]
    ELSE [ok |-> TRUE, value |-> <<>>]

\* a read_var_name that moves past the length prefix before it validates
read_var_name_EagerPrefix(s, is_big_endian, checks) ==
    IF Len(s.rest) < 2
    THEN LengthError(s, 2, checks)
    ELSE LET name_length == U16FromBytes(s.rest[1], s.rest[2], is_big_endian)
             total_size == 2 + name_length
             moved == [rest |-> Slice(s.rest, 2, Len(s.rest)),
                       offset |-> WrappingAdd(s.offset, 2)]
         IN  IF Len(s.rest) < total_size
             THEN LengthError(s, total_size, checks)
             ELSE LET name == ReadString(s, 2, name_length,
                                         VariableNameStringMissingNullTermination)
                  IN  IF ~name.ok
                      THEN Fail(moved, name.err)
                      ELSE Advance(s, total_size, name.value, checks)

\* FieldSlicer::read_var_name
read_var_name(s, is_big_endian, checks) ==
    IF Len(s.rest) < 2
    THEN LengthError(s, 2, checks)
    ELSE LET name_length == U16FromBytes(s.rest[1], s.rest[2], is_big_endian)
             total_size == 2 + name_length
         IN  IF Len(s.rest) < total_size
             THEN LengthError(s, total_size, checks)
             ELSE LET name == ReadString(s, 2, name_length,
                                         VariableNameStringMissingNullTermination)
                  IN  IF ~name.ok
                      THEN Fail(s, name.err)
                      ELSE Advance(s, total_size, name.value, checks)

\* a read_var_name_and_unit that reports the name's error for the unit
read_var_name_and_unit_NameErrorForUnit(s, is_big_endian, checks) ==
    IF Len(s.rest) < 4
    THEN LengthError(s, 4, checks)
    ELSE LET name_length == U16FromBytes(s.rest[1], s.rest[2], is_big_endian)
             unit_length == U16FromBytes(s.rest[3], s.rest[4], is_big_endian)
             total_size == 4 + name_length + unit_length
         IN  IF Len(s.rest) < total_size
             THEN LengthError(s, total_size, checks)
             ELSE LET name == ReadString(s, 4, name_length,
                                         VariableNameStringMissingNullTermination)
                  IN  IF ~name.ok
                      THEN Fail(s, name.err)
                      ELSE LET unit == ReadString(s, 4 + name_length, unit_length,
                                                  VariableNameStringMissingNullTermination)
                           IN  IF ~unit.ok
                               THEN Fail(s, unit.err)
                               ELSE Advance(s, total_size,
                                            <<name.value, unit.value>>, checks)

\* a read_var_name_and_unit that validates the unit before the name
read_var_name_and_unit_UnitFirst(s, is_big_endian, checks) ==
    IF Len(s.rest) < 4
    THEN LengthError(s, 4, checks)
    ELSE LET name_length == U16FromBytes(s.rest[1], s.rest[2], is_big_endian)
             unit_length == U16FromBytes(s.rest[3], s.rest[4], is_big_endian)
             total_size == 4 + name_length + unit_length
         IN  IF Len(s.rest) < total_size
             THEN LengthError(s, total_size, checks)
             ELSE LET unit == ReadString(s, 4 + name_length, unit_length,
                                         VariableUnitStringMissingNullTermination)
                  IN  IF ~unit.ok
                      THEN Fail(s, unit.err)
                      ELSE LET name == ReadString(s, 4, name_length,
                                                  VariableNameStringMissingNullTermination)
                           IN  IF ~name.ok
                               THEN Fail(s, name.err)
                               ELSE Advance(s, total_size,
                                            <<name.value, unit.value>>, checks)

\* FieldSlicer::read_var_name_and_unit
read_var_name_and_unit(s, is_big_endian, checks) ==
    IF Len(s.rest) < 4
    THEN LengthError(s, 4, checks)
    ELSE LET name_length == U16FromBytes(s.rest[1], s.rest[2], is_big_endian)
             unit_length == U16FromBytes(s.rest[3], s.rest[4], is_big_endian)
             total_size == 4 + name_length + unit_length
         IN  IF Len(s.rest) < total_size
             THEN LengthError(s, total_size, checks)
             ELSE LET name == ReadString(s, 4, name_length,
                                         VariableNameStringMissingNullTermination)
                  IN  IF ~name.ok
                      THEN Fail(s, name.err)
                      ELSE LET unit == ReadString(s, 4 + name_length, unit_length,
                                                  VariableUnitStringMissingNullTermination)
                           IN  IF ~unit.ok
                               THEN Fail(s, unit.err)
                               ELSE Advance(s, total_size,
                                            <<name.value, unit.value>>, checks)

\* FieldSlicer::read_raw
read_raw(s, len, checks) ==
    IF Len(s.rest) < len
    THEN LengthError(s, len, checks)
    ELSE Advance(s, len, Slice(s.rest, 0, len), checks)

\* ------------------------------------------------------------------------
\* Inputs
\* ------------------------------------------------------------------------

\* 0x01020304 and 0xFFFEFDFC
U32Values == { <<258, 772>>, <<65534, 64764>> }

OptU32 == {None} \cup { Some(v) : v \in U32Values }

\* ExtendedDltHeader::default() and two headers with all bytes distinct
ExtValues ==
    { [message_info |-> 0, number_of_arguments |-> 0,
       application_id |-> <<0, 0>>, context_id |-> <<0, 0>>],
      [message_info |-> 65, number_of_arguments |-> 2,
       application_id |-> <<4370, 13124>>, context_id |-> <<21862, 30600>>],
      [message_info |-> 254, number_of_arguments |-> 255,
       application_id |-> <<65534, 64764>>, context_id |-> <<258, 772>>] }

OptExt == {None} \cup { Some(e) : e \in ExtValues }

Versions == {0, 1, 5, 7, 8, 255}

Counters == {0, 165}

Lengths == {0, 258, 65535}

HeaderSet ==
    [big_endian : BOOLEAN, version : Versions, message_counter : Counters,
     length : Lengths, ecu_id : OptU32, session_id : OptU32,
     timestamp : OptU32, extended_header : OptExt]

\* DltHeader::default()
DefaultHeader ==
    [big_endian |-> FALSE, version |-> 0, message_counter |-> 0, length |-> 0,
     ecu_id |-> None, session_id |-> None, timestamp |-> None,
     extended_header |-> None]

Sinks == { VecSink, FixedSink(1), FixedSink(6) }

\* headers of tests::dlt_header_with_payload_any; the length is set from
\* the payload
PacketHeaderSet ==
    [big_endian : BOOLEAN, version : {0, 7}, message_counter : {165},
     length : {0}, ecu_id : OptU32, session_id : OptU32,
     timestamp : OptU32,
     extended_header : {None} \cup { Some(e) : e \in { x \in ExtValues : x.message_info # 0 } }]

PayloadSeeds == {1, 85}

\* n payload bytes
PayloadBytes(n, seed) == [i \in 1..n |-> (seed * i + 16) % 256]

\* payloads of 3 bytes (one less than the minimum) up to MaxPayload bytes
Payloads == { PayloadBytes(n, sd) : n \in 3..MaxPayload, sd \in PayloadSeeds }

\* arbitrary buffers: a header type byte, a counter, a declared length and
\* filler bytes, cut to n bytes
RawHeaderTypes == 0..31 \cup {165, 255}

RawLengths == 0..(MaxBuf + 1) \cup {255, 264, 65535}

RawBuffer(header_type, length, n) ==
    [i \in 1..n |-> CASE i = 1 -> header_type
                      [] i = 2 -> 90
                      [] i = 3 -> length \div 256
                      [] i = 4 -> length % 256
                      [] OTHER -> (i * 37 + 11) % 256]

RawBuffers ==
    { RawBuffer(t, l, n) : t \in RawHeaderTypes, l \in RawLengths, n \in 0..MaxBuf }

\* the bytes of a message: the header as DltHeader::write emits it into a
\* Vec, then the payload
MessageBytes(m) == DltHeaderWrite(m.header, VecSink).sink.bytes \o m.payload

\* a message with the given optional parts and payload; length is
\* header_len() + the payload's length
Message(ecu, ext, pl) ==
    LET h == [DefaultHeader EXCEPT !.ecu_id = ecu, !.extended_header = ext,
                                   !.message_counter = Len(pl)]
    IN  [header |-> [h EXCEPT !.length = header_len(h) + Len(pl)], payload |-> pl]

\* two valid messages (8 and 13 bytes) and one whose payload is a byte
\* short of the minimum (7 bytes)
MessageSet ==
    { Message(None, None, PayloadBytes(4, 1)),
      Message(Some(<<258, 772>>), None, PayloadBytes(5, 85)),
      Message(None, None, PayloadBytes(3, 1)) }

\* a message as tests::dlt_header_with_payload_any generates them
ValidMessage(m) ==
    /\ m.header.version <= MAX_VERSION
    /\ Len(m.payload) >= 4
    /\ m.header.length = header_len(m.header) + Len(m.payload)

\* the serialization of a sequence of messages
RECURSIVE Serialize(_)
Serialize(ms) ==
    IF ms = <<>> THEN <<>> ELSE MessageBytes(Head(ms)) \o Serialize(Tail(ms))

\* bytes of the cursor's buffers: the terminator (and zero length), an
\* ASCII control character (and length 1), and a byte that is never valid
\* UTF-8
Alphabet == {0, 1, 255}

\* every buffer of at most MaxData bytes over the alphabet
ShortData == UNION { [1..k -> Alphabet] : k \in 0..MaxData }

FieldLengths == {0, 1, 2}

FieldBytes == {0, 255}

\* a u16 length prefix in the given byte order
LengthPrefix(n, is_big_endian) ==
    IF is_big_endian THEN <<n \div 256, n % 256>> ELSE <<n % 256, n \div 256>>

\* buffers that hold a name and a unit: two length prefixes, then as many
\* bytes as they announce
NameUnitData ==
    UNION { { LengthPrefix(n, e) \o LengthPrefix(u, e) \o body :
                body \in [1..(n + u) -> FieldBytes] } :
            n \in FieldLengths, u \in FieldLengths, e \in BOOLEAN }

\* buffers with multi-byte UTF-8 sequences, whole and broken, and with
\* bytes left over after the field
Utf8Data ==
    { <<0, 3, 195, 169, 0>>,
      <<0, 3, 195, 65, 0>>,
      <<3, 0, 195, 169, 0, 9>>,
      <<0, 4, 226, 130, 172, 0>>,
      <<0, 4, 226, 130, 172, 7>>,
      <<0, 3, 195, 65, 7>>,
      <<2, 0, 255, 1>>,
      <<0, 3, 0, 3, 195, 169, 0, 195, 169, 0, 9>>,
      <<0, 3, 0, 3, 195, 169, 0, 169, 195, 0>>,
      <<3, 0, 3, 0, 195, 195, 0, 65, 66, 7>> }

\* the same buffers cut short after the prefixes: a part of the announced
\* bytes is missing
TruncatedNameUnitData ==
    UNION { { SubSeq(d, 1, k) : k \in 5..(Len(d) - 1) } : d \in NameUnitData }

DataSet == ShortData \cup NameUnitData \cup TruncatedNameUnitData \cup Utf8Data

\* offsets handed to FieldSlicer::new (any usize)
Starts == {1000, USIZE_MAX - 1}

\* lengths handed to read_raw (any usize)
RawLens == 0..(MaxData + 1) \cup {USIZE_MAX}

\* ------------------------------------------------------------------------
\* State
\* ------------------------------------------------------------------------

VARIABLES
    pc,            \* position of the caller in its use of the library
    header,        \* the DltHeader handed to DltHeader::write
    payload,       \* the payload bytes written after the header
    sink,          \* the writer: its bytes so far and its capacity
    write_result,  \* result of DltHeader::write
    source,        \* the bytes under the reader of DltHeader::read
    read_result,   \* result of DltHeader::read
    buffer,        \* the slice handed to DltPacketSlice::from_slice
    packet,        \* result of DltPacketSlice::from_slice
    header_out,    \* result of DltPacketSlice::header
    payload_out,   \* result of DltPacketSlice::payload
    packets,       \* the (header, payload) messages serialized into the sink
    input,         \* the slice handed to SliceIterator::new
    iter,          \* the SliceIterator: its remaining slice
    items,         \* what the calls of SliceIterator::next returned, in order
    data,          \* the bytes handed to FieldSlicer::new
    start,         \* the offset handed to FieldSlicer::new
    overflow_checks, \* whether the build panics on integer overflow (debug) or wraps (release)
    rest,          \* FieldSlicer.rest
    offset,        \* FieldSlicer.offset
    last_op,       \* the last FieldSlicer operation called
    result,        \* what it returned
    original,      \* a clone of the header taken before any set_is_verbose
    calls,         \* the arguments of the set_is_verbose calls so far
    verbose_out    \* result of DltHeader::verbose on the header as it stands

codecVars == <<header, payload, sink, write_result, source, read_result>>

sliceVars == <<buffer, packet, header_out, payload_out>>

iterVars == <<packets, input, iter, items>>

cursorVars == <<data, start, overflow_checks, rest, offset, last_op, result>>

flagVars == <<original, calls, verbose_out>>

vars == <<pc, codecVars, sliceVars, iterVars, cursorVars, flagVars>>

NoResult == [kind |-> "None"]

\* no SliceIterator has been constructed
NoIterator == [slice |-> <<>>]

\* no FieldSlicer has been constructed
NoCursor ==
    /\ data = <<>>
    /\ start = 0
    /\ overflow_checks = FALSE
    /\ rest = <<>>
    /\ offset = 0
    /\ last_op = [name |-> "none"]
    /\ result = NoResult

\* no verbose flag has been looked at
NoFlags ==
    /\ original = NoResult
    /\ calls = <<>>
    /\ verbose_out = NoResult

\* ------------------------------------------------------------------------
\* Header codec: write a header, then read it back (tests::write_read,
\* tests::read_length_error, tests::write_version_error,
\* tests::write_io_error)
\* ------------------------------------------------------------------------

InitCodec ==
    /\ pc = "start"
    /\ header \in HeaderSet
    /\ payload = <<>>
    /\ sink \in Sinks
    /\ write_result = NoResult
    /\ source = <<>>
    /\ read_result = NoResult
    /\ buffer = <<>>
    /\ packet = NoResult
    /\ header_out = NoResult
    /\ payload_out = NoResult
    /\ packets = <<>>
    /\ input = <<>>
    /\ iter = NoIterator
    /\ items = <<>>
    /\ NoCursor
    /\ NoFlags

\* header.write(&mut sink)
Write ==
    /\ pc = "start"
    /\ LET w == DltHeaderWrite(header, sink)
       IN  /\ sink' = w.sink
           /\ write_result' = w.result
    /\ pc' = "written"
    /\ UNCHANGED <<header, payload, source, read_result, sliceVars, iterVars, cursorVars, flagVars>>

\* DltHeader::read(&mut Cursor::new(&buffer[..n])) over the bytes written
Read ==
    /\ pc = "written"
    /\ write_result.kind = "Ok"
    /\ \E n \in 0..Len(sink.bytes) :
          /\ source' = Slice(sink.bytes, 0, n)
          /\ read_result' = DltHeaderRead(Slice(sink.bytes, 0, n))
    /\ pc' = "read"
    /\ UNCHANGED <<header, payload, sink, write_result, sliceVars, iterVars, cursorVars, flagVars>>

NextCodec == Write \/ Read

SpecCodec == InitCodec /\ [][NextCodec]_vars

\* ------------------------------------------------------------------------
\* C1: header round-trip.  For every header with version <= 7, write into
\* an empty growable sink succeeds, and read over the written bytes returns
\* a header equal to the one written.
\* ------------------------------------------------------------------------

GrowableSink == sink.cap = Unlimited

C1_RoundTrip ==
    /\ (pc = "written" /\ GrowableSink /\ header.version <= 7)
          => write_result.kind = "Ok"
    /\ (pc = "read" /\ GrowableSink /\ header.version <= 7 /\ source = sink.bytes)
          => (read_result.kind = "Ok" /\ read_result.header = header)

\* a header with every optional field present was written and read back whole
C1_Witness ==
    /\ pc = "read"
    /\ GrowableSink
    /\ source = sink.bytes
    /\ header.version = 7
    /\ header.ecu_id.some /\ header.session_id.some /\ header.timestamp.some
    /\ header.extended_header.some
    /\ header.ecu_id # header.session_id
    /\ read_result.kind = "Ok"

\* ------------------------------------------------------------------------
\* Packet slice: a buffer is either built by writing a header and then a
\* payload (tests::packet_from_slice,
\* tests::packet_from_slice_header_variable_len_eof_errors) or is an
\* arbitrary one (tests::packet_from_slice_header_len_eof_errors); then
\* from_slice is called on it and the accessors on its result
\* ------------------------------------------------------------------------

InitSlice ==
    /\ \/ /\ pc = "start"
          /\ payload \in Payloads
          /\ \E h \in PacketHeaderSet :
                header = [h EXCEPT !.length = header_len(h) + Len(payload)]
          /\ sink = VecSink
       \/ /\ pc = "raw"
          /\ payload = <<>>
          /\ header = DefaultHeader
          /\ \E b \in RawBuffers : sink = [bytes |-> b, cap |-> Unlimited]
    /\ write_result = NoResult
    /\ source = <<>>
    /\ read_result = NoResult
    /\ buffer = <<>>
    /\ packet = NoResult
    /\ header_out = NoResult
    /\ payload_out = NoResult
    /\ packets = <<>>
    /\ input = <<>>
    /\ iter = NoIterator
    /\ items = <<>>
    /\ NoCursor
    /\ NoFlags

\* buffer.write(&payload[..])
AppendPayload ==
    /\ pc = "written"
    /\ write_result.kind = "Ok"
    /\ payload # <<>>
    /\ sink' = WriteAll(sink, payload).sink
    /\ pc' = "appended"
    /\ UNCHANGED <<header, payload, write_result, source, read_result, sliceVars, iterVars, cursorVars, flagVars>>

\* DltPacketSlice::from_slice(&buffer[..]) and, for a built buffer, also
\* DltPacketSlice::from_slice(&buffer[..len-1])
FromSlice ==
    /\ pc \in {"appended", "raw"}
    /\ \E n \in (IF pc = "appended"
                 THEN {Len(sink.bytes), Len(sink.bytes) - 1}
                 ELSE {Len(sink.bytes)}) :
          /\ buffer' = Slice(sink.bytes, 0, n)
          /\ packet' = from_slice(Slice(sink.bytes, 0, n))
    /\ pc' = "sliced"
    /\ UNCHANGED <<codecVars, header_out, payload_out, iterVars, cursorVars, flagVars>>

\* slice.header()
Header ==
    /\ pc = "sliced"
    /\ packet.kind = "Ok"
    /\ header_out = NoResult
    /\ header_out' = PacketHeader(packet)
    /\ UNCHANGED <<pc, codecVars, buffer, packet, payload_out, iterVars, cursorVars, flagVars>>

\* slice.payload()
Payload ==
    /\ pc = "sliced"
    /\ packet.kind = "Ok"
    /\ payload_out = NoResult
    /\ payload_out' = PacketPayload(packet)
    /\ UNCHANGED <<pc, codecVars, buffer, packet, header_out, iterVars, cursorVars, flagVars>>

NextSlice == Write \/ AppendPayload \/ FromSlice \/ Header \/ Payload

SpecSlice == InitSlice /\ [][NextSlice]_vars

\* the buffer handed to from_slice is all of write(h) ++ p, with p of at
\* least 4 bytes
BuiltWhole ==
    /\ pc = "sliced"
    /\ write_result.kind = "Ok"
    /\ Len(payload) >= 4
    /\ buffer = sink.bytes

\* the buffer handed to from_slice is write(h) ++ p without its last byte
BuiltTruncated ==
    /\ pc = "sliced"
    /\ write_result.kind = "Ok"
    /\ Len(payload) >= 4
    /\ Len(buffer) = Len(sink.bytes) - 1

\* ------------------------------------------------------------------------
\* C2: slice extraction.  For a header h and a payload p of at least 4
\* bytes with h.length = h.header_len() + len(p), from_slice(write(h) ++ p)
\* succeeds, its header() is h and its payload() is p; from_slice on the
\* same buffer without its last byte fails with UnexpectedEndOfSlice.
\* ------------------------------------------------------------------------

C2_SliceExtraction ==
    /\ BuiltWhole =>
          /\ packet.kind = "Ok"
          /\ header_out # NoResult => header_out = [kind |-> "Ok", value |-> header]
          /\ payload_out # NoResult => payload_out = [kind |-> "Ok", value |-> payload]
    /\ BuiltTruncated => packet.kind = "UnexpectedEndOfSlice"

\* a message with every optional part was sliced and both accessors were called
C2_Witness ==
    /\ BuiltWhole
    /\ header_len(header) = 26
    /\ header_out.kind = "Ok"
    /\ payload_out.kind = "Ok"
    /\ Len(payload_out.value) = MaxPayload

\* the big-endian u16 at bytes [2..4) of a buffer of at least 4 bytes
DeclaredLength(b) == b[3] * 256 + b[4]

\* bit k of a byte
Bit(x, k) == (x \div (2 ^ k)) % 2

\* 4 + 10*[bit0] + 4*[bit2] + 4*[bit3] + 4*[bit4] of byte 0
FlagHeaderSize(b) ==
    4 + 10 * Bit(b[1], 0) + 4 * Bit(b[1], 2) + 4 * Bit(b[1], 3) + 4 * Bit(b[1], 4)

\* ------------------------------------------------------------------------
\* C3: buffer-size errors of from_slice and their order.  A buffer of fewer
\* than 4 bytes yields UnexpectedEndOfSlice{4, len}; otherwise a buffer
\* shorter than its declared length L yields UnexpectedEndOfSlice{L, len},
\* also when L is below the minimum length (the buffer check comes first).
\* ------------------------------------------------------------------------

C3_BufferSizeErrors ==
    pc = "sliced" =>
        /\ Len(buffer) < 4 => packet = UnexpectedEndOfSlice(4, Len(buffer))
        /\ (Len(buffer) >= 4 /\ Len(buffer) < DeclaredLength(buffer))
              => packet = UnexpectedEndOfSlice(DeclaredLength(buffer), Len(buffer))

\* a buffer both shorter than its declared length and with a declared
\* length below the minimum was handed to from_slice
C3_Witness ==
    /\ pc = "sliced"
    /\ Len(buffer) >= 4
    /\ Len(buffer) < DeclaredLength(buffer)
    /\ DeclaredLength(buffer) < FlagHeaderSize(buffer) + 4
    /\ packet.kind = "UnexpectedEndOfSlice"

\* ------------------------------------------------------------------------
\* C4: minimum-length enforcement.  A buffer of at least 4 and at least L
\* bytes whose declared length L is below header_size + 4 yields
\* LengthSmallerThenMinimum{header_size + 4, L}; in particular a header with
\* length = header_len() + 3 followed by exactly 3 payload bytes does.
\* ------------------------------------------------------------------------

C4_MinimumLength ==
    pc = "sliced" =>
        /\ (/\ Len(buffer) >= 4
            /\ Len(buffer) >= DeclaredLength(buffer)
            /\ DeclaredLength(buffer) < FlagHeaderSize(buffer) + 4)
              => packet = LengthSmallerThenMinimum(FlagHeaderSize(buffer) + 4,
                                                   DeclaredLength(buffer))
        /\ (/\ write_result.kind = "Ok"
            /\ Len(payload) = 3
            /\ header.length = header_len(header) + 3
            /\ buffer = sink.bytes)
              => packet.kind = "LengthSmallerThenMinimum"

\* a header with length = header_len() + 3 and 3 payload bytes was sliced
C4_Witness ==
    /\ pc = "sliced"
    /\ write_result.kind = "Ok"
    /\ Len(payload) = 3
    /\ header.length = header_len(header) + 3
    /\ header_len(header) = 26
    /\ buffer = sink.bytes
    /\ packet.kind = "LengthSmallerThenMinimum"

\* ------------------------------------------------------------------------
\* C5: packet slice invariant.  Every packet returned by from_slice(b) has
\* header_size + 4 <= L <= len(b); slice() is the first L bytes of b and
\* payload() is slice()[header_size..], of L - header_size >= 4 bytes.
\* ------------------------------------------------------------------------

C5_PacketInvariant ==
    (pc = "sliced" /\ packet.kind = "Ok") =>
        LET L == DeclaredLength(buffer) IN
        /\ packet.header_size + 4 <= L
        /\ L <= Len(buffer)
        /\ PacketSlice(packet) = SubSeq(buffer, 1, L)
        /\ payload_out # NoResult =>
              /\ payload_out.kind = "Ok"
              /\ payload_out.value = SubSeq(buffer, packet.header_size + 1, L)
              /\ Len(payload_out.value) = L - packet.header_size
              /\ Len(payload_out.value) >= 4

\* a packet was cut out of a buffer longer than its declared length and
\* its payload was taken
C5_Witness ==
    /\ pc = "sliced"
    /\ packet.kind = "Ok"
    /\ Len(buffer) > DeclaredLength(buffer)
    /\ packet.header_size > 4
    /\ payload_out.kind = "Ok"

\* ------------------------------------------------------------------------
\* C6 (as amended): header size range.  The header size from_slice derives
\* lies between 4 and 26 bytes (4 fixed, 3 optional fields of 4 bytes, 10
\* bytes of extended header), for every packet it returns and for every
\* combination of flags in byte 0.
\* ------------------------------------------------------------------------

C6_HeaderSizeRange ==
    /\ (pc = "sliced" /\ packet.kind = "Ok")
          => (4 <= packet.header_size /\ packet.header_size <= 26)
    /\ (pc = "sliced" /\ Len(buffer) >= 1)
          => (4 <= HeaderSizeOf(buffer[1]) /\ HeaderSizeOf(buffer[1]) <= 26)

\* a packet with all four optional parts, hence a 26-byte header, was returned
C6_Witness ==
    /\ pc = "sliced"
    /\ packet.kind = "Ok"
    /\ packet.header_size = 26
    /\ Len(buffer) > DeclaredLength(buffer)

\* C6 as stated: the header size of a returned packet lies between 4 and 22
C6_Original ==
    (pc = "sliced" /\ packet.kind = "Ok")
        => (4 <= packet.header_size /\ packet.header_size <= 22)

\* ------------------------------------------------------------------------
\* Slice iterator: messages are serialized back to back into a buffer, an
\* iterator is made over the buffer or a prefix of it, and next is called
\* until it has returned None twice (tests::iterator)
\* ------------------------------------------------------------------------

InitIter ==
    /\ pc = "serialized"
    /\ packets \in UNION { [1..k -> MessageSet] : k \in 1..MaxMsgs }
    /\ sink = [bytes |-> Serialize(packets), cap |-> Unlimited]
    /\ header = DefaultHeader
    /\ payload = <<>>
    /\ write_result = NoResult
    /\ source = <<>>
    /\ read_result = NoResult
    /\ buffer = <<>>
    /\ packet = NoResult
    /\ header_out = NoResult
    /\ payload_out = NoResult
    /\ input = <<>>
    /\ iter = NoIterator
    /\ items = <<>>
    /\ NoCursor
    /\ NoFlags

\* SliceIterator::new(&buffer[..n])
IterNew ==
    /\ pc = "serialized"
    /\ \E n \in 0..Len(sink.bytes) :
          /\ input' = Slice(sink.bytes, 0, n)
          /\ iter' = SliceIteratorNew(Slice(sink.bytes, 0, n))
    /\ pc' = "iterating"
    /\ UNCHANGED <<codecVars, sliceVars, packets, items, cursorVars, flagVars>>

\* it.next(); the calls stop once None has been returned twice
IterNext ==
    /\ pc = "iterating"
    /\ ~(Len(items) >= 2 /\ items[Len(items)] = End /\ items[Len(items) - 1] = End)
    /\ Len(items) < MaxMsgs + 3
    /\ LET r == next(iter)
       IN  /\ iter' = r.iter
           /\ items' = Append(items, r.item)
    /\ UNCHANGED <<pc, codecVars, sliceVars, packets, input, cursorVars, flagVars>>

NextIter == IterNew \/ IterNext

SpecIter == InitIter /\ [][NextIter]_vars

\* the packet slice that covers exactly the bytes of a message
PacketOf(m) ==
    [kind |-> "Ok", slice |-> MessageBytes(m), header_size |-> header_len(m.header)]

AllValid == \A i \in 1..Len(packets) : ValidMessage(packets[i])

\* the number of bytes up to the end of message j
EndOf(j) == Len(Serialize(SubSeq(packets, 1, j)))

IsError(item) == item.kind \in {"UnexpectedEndOfSlice", "LengthSmallerThenMinimum"}

\* ------------------------------------------------------------------------
\* C7: iterator fidelity.  Over the concatenation of k (1 <= k <= 5) valid
\* messages the iterator yields exactly k Ok items, the i-th being the
\* packet slice that covers the bytes of message i, and then None.
\* ------------------------------------------------------------------------

C7_IteratorFidelity ==
    (pc = "iterating" /\ AllValid /\ input = sink.bytes) =>
        \A i \in 1..Len(items) :
            /\ i <= Len(packets) => items[i] = PacketOf(packets[i])
            /\ i > Len(packets) => items[i] = End

\* five valid messages, not all alike, were iterated to the end
C7_Witness ==
    /\ pc = "iterating"
    /\ AllValid
    /\ input = sink.bytes
    /\ Len(packets) = 5
    /\ packets[1] # packets[2]
    /\ Len(items) = 6
    /\ items[6] = End

\* ------------------------------------------------------------------------
\* C8: iterator termination after an error.  A next() on an empty remaining
\* buffer returns None and leaves it empty; a next() on which from_slice
\* fails returns that error and empties the remaining buffer, so every
\* later next() returns None: an error or a None is only ever followed by
\* None.
\* ------------------------------------------------------------------------

C8_Step ==
    items' # items =>
        LET r == items'[Len(items')] IN
        /\ Len(items') = Len(items) + 1
        /\ iter.slice = <<>> => (r = End /\ iter'.slice = <<>>)
        /\ (iter.slice # <<>> /\ from_slice(iter.slice).kind # "Ok")
              => (IsError(r) /\ r = from_slice(iter.slice) /\ iter'.slice = <<>>)
        /\ (items # <<>> /\ items[Len(items)].kind # "Ok") => r = End
        /\ r = End => iter.slice = <<>>

C8_TerminationAfterError == [][C8_Step]_vars

\* an Ok item, then an error in the middle of the buffer, then None
C8_Witness ==
    /\ pc = "iterating"
    /\ Len(items) = 3
    /\ items[1].kind = "Ok"
    /\ items[2].kind = "LengthSmallerThenMinimum"
    /\ items[3] = End
    /\ Len(input) > Len(items[1].slice) + 7

\* ------------------------------------------------------------------------
\* C9: iterator on a truncated buffer.  Over k valid messages cut one byte
\* short of the end of message j (j = 1 or j = k) the iterator yields the
\* first j-1 messages as Ok items, then one Err(UnexpectedEndOfSlice), then
\* None.
\* ------------------------------------------------------------------------

C9_TruncatedBuffer ==
    (pc = "iterating" /\ AllValid) =>
        \A j \in {1, Len(packets)} :
            Len(input) = EndOf(j) - 1 =>
                \A i \in 1..Len(items) :
                    /\ i < j => items[i] = PacketOf(packets[i])
                    /\ i = j => items[i].kind = "UnexpectedEndOfSlice"
                    /\ i > j => items[i] = End

\* five valid messages cut one byte short of the end of the last one were
\* iterated to the end
C9_Witness ==
    /\ pc = "iterating"
    /\ AllValid
    /\ Len(packets) = 5
    /\ Len(input) = EndOf(5) - 1
    /\ Len(items) = 6
    /\ items[4].kind = "Ok"
    /\ items[5].kind = "UnexpectedEndOfSlice"
    /\ items[6] = End

\* ------------------------------------------------------------------------
\* Field cursor: a FieldSlicer is made over a buffer and read operations
\* are called on it in any order (mod test_field_slicer)
\* ------------------------------------------------------------------------

InitCursor ==
    /\ pc = "cursor"
    /\ data \in DataSet
    /\ start \in Starts
    /\ overflow_checks \in BOOLEAN
    /\ rest = FieldSlicerNew(data, start).rest
    /\ offset = FieldSlicerNew(data, start).offset
    /\ last_op = [name |-> "new"]
    /\ result = NoResult
    /\ header = DefaultHeader
    /\ payload = <<>>
    /\ sink = VecSink
    /\ write_result = NoResult
    /\ source = <<>>
    /\ read_result = NoResult
    /\ buffer = <<>>
    /\ packet = NoResult
    /\ header_out = NoResult
    /\ payload_out = NoResult
    /\ packets = <<>>
    /\ input = <<>>
    /\ iter = NoIterator
    /\ items = <<>>
    /\ NoFlags

\* the FieldSlicer as it stands
Cursor == [rest |-> rest, offset |-> offset]

\* the effect of a call on the state: the cursor as the call left it and
\* what it returned; a panic ends the use of the cursor
Call(op, r) ==
    /\ rest' = r.rest
    /\ offset' = r.offset
    /\ result' = r.result
    /\ last_op' = op
    /\ pc' = IF r.result = Panic THEN "panicked" ELSE "cursor"
    /\ UNCHANGED <<codecVars, sliceVars, iterVars, data, start, overflow_checks, flagVars>>

ReadU8 ==
    /\ pc = "cursor"
    /\ Call([name |-> "read_u8"], read_u8(Cursor, overflow_checks))

Read2Bytes ==
    /\ pc = "cursor"
    /\ Call([name |-> "read_2bytes"], read_2bytes(Cursor, overflow_checks))

ReadU16 ==
    /\ pc = "cursor"
    /\ \E e \in BOOLEAN :
          Call([name |-> "read_u16", is_big_endian |-> e],
               read_u16(Cursor, e, overflow_checks))

ReadVarName ==
    /\ pc = "cursor"
    /\ \E e \in BOOLEAN :
          Call([name |-> "read_var_name", is_big_endian |-> e],
               read_var_name(Cursor, e, overflow_checks))

ReadVarNameAndUnit ==
    /\ pc = "cursor"
    /\ \E e \in BOOLEAN :
          Call([name |-> "read_var_name_and_unit", is_big_endian |-> e],
               read_var_name_and_unit(Cursor, e, overflow_checks))

ReadRaw ==
    /\ pc = "cursor"
    /\ \E len \in RawLens :
          Call([name |-> "read_raw", len |-> len],
               read_raw(Cursor, len, overflow_checks))

NextCursor ==
    ReadU8 \/ Read2Bytes \/ ReadU16 \/ ReadVarName \/ ReadVarNameAndUnit \/ ReadRaw

SpecCursor == InitCursor /\ [][NextCursor]_vars

\* the errors a FieldSlicer operation returns
IsDecodeError(r) ==
    r.kind \in {"UnexpectedEndOfSlice", "VariableNameStringMissingNullTermination",
                "VariableUnitStringMissingNullTermination", "Utf8"}

\* ------------------------------------------------------------------------
\* C10: cursor atomicity on failure.  When read_u8, read_2bytes, read_u16,
\* read_var_name, read_var_name_and_unit or read_raw returns an error
\* (length, missing null termination or UTF-8), rest and offset are what
\* they were before the call.
\* ------------------------------------------------------------------------

C10_Step ==
    (pc = "cursor" /\ IsDecodeError(result')) => (rest' = rest /\ offset' = offset)

C10_AtomicOnFailure == [][C10_Step]_vars

\* after a successful read, a name with a missing null termination was
\* refused with the cursor past the first read only
C10_Witness ==
    /\ pc = "cursor"
    /\ last_op.name = "read_var_name"
    /\ result.kind = "VariableNameStringMissingNullTermination"
    /\ offset = start + 1
    /\ Len(rest) = Len(data) - 1
    /\ Len(rest) >= 3

\* the number of bytes a successful call of the operation op consumes from
\* the bytes r in front of the cursor: 1 for read_u8, 2 for read_2bytes and
\* read_u16, 2 + n for read_var_name, 4 + n + u for read_var_name_and_unit
\* (n, u the length prefixes), len for read_raw(len)
PrefixAt(r, i, op) ==
    IF op.is_big_endian THEN r[i] * 256 + r[i + 1] ELSE r[i + 1] * 256 + r[i]

Consumed(op, r) ==
    CASE op.name = "read_u8" -> 1
      [] op.name \in {"read_2bytes", "read_u16"} -> 2
      [] op.name = "read_var_name" -> 2 + PrefixAt(r, 1, op)
      [] op.name = "read_var_name_and_unit" -> 4 + PrefixAt(r, 1, op) + PrefixAt(r, 3, op)
      [] op.name = "read_raw" -> op.len

\* a call that returned Ok took the step
Succeeded == pc = "cursor" /\ result'.kind = "Ok"

\* the sums of the call stay within usize
NoOverflow == offset + Len(rest) <= USIZE_MAX

\* ------------------------------------------------------------------------
\* C11: cursor advance on success.  Every successful read removes exactly c
\* bytes from the front of rest and adds exactly c to offset (c as given by
\* Consumed); the bytes after them are the new rest, unchanged and in order.
\* read_raw(len) returns the first len bytes and leaves rest empty on a
\* buffer of exactly len bytes.
\* ------------------------------------------------------------------------

C11_Step ==
    Succeeded =>
        LET c == Consumed(last_op', rest) IN
        /\ c <= Len(rest)
        /\ rest' = SubSeq(rest, c + 1, Len(rest))
        /\ offset' = offset + c
        /\ last_op'.name = "read_raw" =>
              /\ result'.value = SubSeq(rest, 1, last_op'.len)
              /\ Len(rest) = last_op'.len => rest' = <<>>

C11_AdvanceOnSuccess == [][C11_Step]_vars

\* C11 for the calls whose sums stay within usize
C11_WithinWord == [][NoOverflow => C11_Step]_vars

\* the number of bytes the operation op needs in front of the cursor, given
\* the bytes r that are there: the fixed part first, then, once the length
\* prefixes can be read, the whole field
Needed(op, r) ==
    CASE op.name = "read_u8" -> 1
      [] op.name \in {"read_2bytes", "read_u16"} -> 2
      [] op.name = "read_var_name" ->
            IF Len(r) < 2 THEN 2 ELSE 2 + PrefixAt(r, 1, op)
      [] op.name = "read_var_name_and_unit" ->
            IF Len(r) < 4 THEN 4 ELSE 4 + PrefixAt(r, 1, op) + PrefixAt(r, 3, op)
      [] op.name = "read_raw" -> op.len

\* the call that took the step found fewer bytes than it needs
TooShort == pc = "cursor" /\ Len(rest) < Needed(last_op', rest)

\* ------------------------------------------------------------------------
\* C12: cursor length-error values.  An operation that needs m bytes and
\* finds len(rest) < m fails with UnexpectedEndOfSlice{layer: VerboseValue,
\* minimum_size: offset + m, actual_size: offset + len(rest)}, so that
\* minimum_size > actual_size.
\* ------------------------------------------------------------------------

C12_Step ==
    TooShort =>
        /\ result' = UnexpectedEndOfSliceError(offset + Needed(last_op', rest),
                                               offset + Len(rest))
        /\ result'.minimum_size > result'.actual_size

C12_LengthErrorValues == [][C12_Step]_vars

\* C12 for the calls whose sums stay within usize
C12_WithinWord ==
    [][(offset + Needed(last_op', rest) <= USIZE_MAX) => C12_Step]_vars

\* the call that took the step was read_var_name over a cursor that holds
\* the length prefix
NameCall == pc = "cursor" /\ last_op'.name = "read_var_name" /\ Len(rest) >= 2

\* the call that took the step was read_var_name_and_unit over a cursor
\* that holds both length prefixes and the bytes they announce
NameUnitCall ==
    /\ pc = "cursor"
    /\ last_op'.name = "read_var_name_and_unit"
    /\ Len(rest) >= 4
    /\ Len(rest) >= 4 + PrefixAt(rest, 1, last_op') + PrefixAt(rest, 3, last_op')

\* ------------------------------------------------------------------------
\* C13: zero-length name and unit.  read_var_name with a length prefix of 0
\* yields the empty string and consumes exactly the 2 prefix bytes whatever
\* follows; in read_var_name_and_unit a name or unit length prefix of 0
\* yields the empty string for that field, asks for no terminator and adds
\* nothing to the bytes consumed beyond the 4 prefix bytes.
\* ------------------------------------------------------------------------

C13_Step ==
    /\ (NameCall /\ PrefixAt(rest, 1, last_op') = 0) =>
          /\ result' = [kind |-> "Ok", value |-> <<>>]
          /\ rest' = SubSeq(rest, 3, Len(rest))
    /\ NameUnitCall =>
          LET n == PrefixAt(rest, 1, last_op')
              u == PrefixAt(rest, 3, last_op')
          IN  /\ n = 0 =>
                    /\ result'.kind # "VariableNameStringMissingNullTermination"
                    /\ result'.kind = "Ok" =>
                          /\ result'.value[1] = <<>>
                          /\ rest' = SubSeq(rest, 4 + u + 1, Len(rest))
              /\ u = 0 =>
                    /\ result'.kind # "VariableUnitStringMissingNullTermination"
                    /\ result'.kind = "Ok" =>
                          /\ result'.value[2] = <<>>
                          /\ rest' = SubSeq(rest, 4 + n + 1, Len(rest))
              /\ (n = 0 /\ u = 0) => result' = [kind |-> "Ok", value |-> << <<>>, <<>> >>]

C13_ZeroLength == [][C13_Step]_vars

\* C13 for the calls whose sums stay within usize
C13_WithinWord == [][NoOverflow => C13_Step]_vars

\* the field of n > 0 bytes that starts at zero-based position at of the
\* bytes r: its body and its last byte
Body(r, at, n) == SubSeq(r, at + 1, at + n - 1)

LastByte(r, at, n) == r[at + n]

\* the field is terminated and its body is valid UTF-8, or it is empty
FieldValid(r, at, n) ==
    n = 0 \/ (LastByte(r, at, n) = 0 /\ Utf8Valid(Body(r, at, n)))

CursorUnchanged == rest' = rest /\ offset' = offset

\* ------------------------------------------------------------------------
\* C14: missing null termination.  With enough bytes, read_var_name with
\* n > 0 whose n-th string byte is not 0 fails with
\* VariableNameStringMissingNullTermination; read_var_name_and_unit fails
\* with that error when the name (n > 0) lacks its terminator and with
\* VariableUnitStringMissingNullTermination when the name is valid and the
\* unit (u > 0) lacks its terminator; the cursor is not advanced.
\* ------------------------------------------------------------------------

C14_Step ==
    /\ NameCall =>
          LET n == PrefixAt(rest, 1, last_op') IN
          (n > 0 /\ Len(rest) >= 2 + n /\ LastByte(rest, 2, n) # 0) =>
              /\ result' = VariableNameStringMissingNullTermination
              /\ CursorUnchanged
    /\ NameUnitCall =>
          LET n == PrefixAt(rest, 1, last_op')
              u == PrefixAt(rest, 3, last_op')
          IN  /\ (n > 0 /\ LastByte(rest, 4, n) # 0) =>
                    /\ result' = VariableNameStringMissingNullTermination
                    /\ CursorUnchanged
              /\ (FieldValid(rest, 4, n) /\ u > 0 /\ LastByte(rest, 4 + n, u) # 0) =>
                    /\ result' = VariableUnitStringMissingNullTermination
                    /\ CursorUnchanged

C14_MissingNullTermination == [][C14_Step]_vars

\* a unit without terminator behind a valid, non-empty name was refused
C14_Witness ==
    /\ pc = "cursor"
    /\ last_op.name = "read_var_name_and_unit"
    /\ result = VariableUnitStringMissingNullTermination
    /\ Len(rest) >= 4
    /\ PrefixAt(rest, 1, last_op) > 0
    /\ PrefixAt(rest, 3, last_op) > 0

\* the error of a name field of n > 0 bytes at position 4 that is not valid
NameError(r, n) ==
    IF LastByte(r, 4, n) # 0
    THEN VariableNameStringMissingNullTermination
    ELSE Utf8Error

\* the name field of a read_var_name_and_unit call lies in rest and fails
\* its validation
NameFails(n) ==
    /\ n > 0
    /\ Len(rest) >= 4 + n
    /\ ~FieldValid(rest, 4, n)

\* ------------------------------------------------------------------------
\* C15: positional validation order in read_var_name_and_unit.  When the
\* buffer holds the 4 + n + u bytes the two prefixes announce and the name
\* field (n > 0) has a non-zero last byte or a body that is not valid UTF-8,
\* the call returns the name's error and leaves the cursor alone, whatever
\* the unit bytes are (terminated or not, valid UTF-8 or not).
\* ------------------------------------------------------------------------

C15_Step ==
    NameUnitCall =>
        LET n == PrefixAt(rest, 1, last_op') IN
        NameFails(n) =>
            /\ result' = NameError(rest, n)
            /\ CursorUnchanged

C15_NameBeforeUnit == [][C15_Step]_vars

\* the name's error was returned for a buffer whose unit field is not
\* terminated either
C15_Witness ==
    /\ pc = "cursor"
    /\ last_op.name = "read_var_name_and_unit"
    /\ result = VariableNameStringMissingNullTermination
    /\ Len(rest) >= 4
    /\ LET n == PrefixAt(rest, 1, last_op)
           u == PrefixAt(rest, 3, last_op)
       IN  /\ u > 0
           /\ Len(rest) >= 4 + n + u
           /\ LastByte(rest, 4 + n, u) # 0

\* C15 as the specification words it: the name's error is returned as soon
\* as the name field lies in the buffer and fails, whether the unit's bytes
\* are present or not
C15_Original ==
    [][(pc = "cursor" /\ last_op'.name = "read_var_name_and_unit"
            /\ Len(rest) >= 4)
         => LET n == PrefixAt(rest, 1, last_op') IN
            NameFails(n) => result' = NameError(rest, n)]_vars

\* ------------------------------------------------------------------------
\* C16: UTF-8 failure.  With enough bytes, a field (the name of
\* read_var_name, the name and the unit of read_var_name_and_unit) of n > 0
\* bytes with a 0 last byte and a body that is not valid UTF-8 fails with
\* the Utf8 error and the cursor is not advanced; a field that is both
\* unterminated and not valid UTF-8 fails with the missing null termination
\* error; a returned string is the n-1 body bytes without the terminator.
\* ------------------------------------------------------------------------

C16_Step ==
    /\ NameCall =>
          LET n == PrefixAt(rest, 1, last_op') IN
          (n > 0 /\ Len(rest) >= 2 + n) =>
              /\ (LastByte(rest, 2, n) = 0 /\ ~Utf8Valid(Body(rest, 2, n))) =>
                    result' = Utf8Error /\ CursorUnchanged
              /\ (LastByte(rest, 2, n) # 0 /\ ~Utf8Valid(Body(rest, 2, n))) =>
                    result' = VariableNameStringMissingNullTermination
              /\ result'.kind = "Ok" => result'.value = Body(rest, 2, n)
    /\ NameUnitCall =>
          LET n == PrefixAt(rest, 1, last_op')
              u == PrefixAt(rest, 3, last_op')
          IN  /\ n > 0 =>
                    /\ (LastByte(rest, 4, n) = 0 /\ ~Utf8Valid(Body(rest, 4, n))) =>
                          result' = Utf8Error /\ CursorUnchanged
                    /\ (LastByte(rest, 4, n) # 0 /\ ~Utf8Valid(Body(rest, 4, n))) =>
                          result' = VariableNameStringMissingNullTermination
                    /\ result'.kind = "Ok" => result'.value[1] = Body(rest, 4, n)
              /\ (u > 0 /\ FieldValid(rest, 4, n)) =>
                    /\ (LastByte(rest, 4 + n, u) = 0
                            /\ ~Utf8Valid(Body(rest, 4 + n, u))) =>
                          result' = Utf8Error /\ CursorUnchanged
                    /\ (LastByte(rest, 4 + n, u) # 0
                            /\ ~Utf8Valid(Body(rest, 4 + n, u))) =>
                          result' = VariableUnitStringMissingNullTermination
                    /\ result'.kind = "Ok" =>
                          result'.value[2] = Body(rest, 4 + n, u)

C16_Utf8Failure == [][C16_Step]_vars

\* read_var_name refused a name that is neither terminated nor valid UTF-8
\* with the missing null termination error
C16_Witness ==
    /\ pc = "cursor"
    /\ last_op.name = "read_var_name"
    /\ result = VariableNameStringMissingNullTermination
    /\ Len(rest) >= 2
    /\ LET n == PrefixAt(rest, 1, last_op)
       IN  /\ n > 0
           /\ Len(rest) >= 2 + n
           /\ ~Utf8Valid(Body(rest, 2, n))

\* ------------------------------------------------------------------------
\* C17: version bound.  For every header with version > 7, write fails with
\* VersionTooLarge(version) and the sink is unchanged: no byte was written.
\* ------------------------------------------------------------------------

C17_Step ==
    (pc = "start" /\ pc' = "written" /\ header.version > 7) =>
        /\ write_result' = [kind |-> "VersionTooLarge", version |-> header.version]
        /\ sink' = sink

C17_VersionBound == [][C17_Step]_vars

\* version 255 was refused by a sink of one byte, which is still empty
C17_Witness ==
    /\ pc = "written"
    /\ header.version = 255
    /\ write_result.kind = "VersionTooLarge"
    /\ sink = FixedSink(1)

\* ------------------------------------------------------------------------
\* C18: truncated header decode.  For every header with version <= 7, read
\* over a strict prefix of its encoding (the empty source included) fails
\* with IoError.
\* ------------------------------------------------------------------------

C18_TruncatedDecode ==
    (pc = "read" /\ Len(source) < Len(sink.bytes)) => read_result = IoError

\* the encoding of a header with an extended header was read without its
\* last byte
C18_Witness ==
    /\ pc = "read"
    /\ header.extended_header.some
    /\ Len(sink.bytes) = header_len(header)
    /\ Len(source) = Len(sink.bytes) - 1
    /\ read_result = IoError

\* ------------------------------------------------------------------------
\* C19: header_len is the serialized size.  header_len is 4, plus 4 for each
\* of ecu_id, session_id and timestamp that is present, plus 10 when the
\* extended header is present; a successful write emits exactly header_len
\* bytes.
\* ------------------------------------------------------------------------

PresentCount(h) ==
    Cardinality({ f \in {"ecu_id", "session_id", "timestamp"} : h[f].some })

C19_HeaderLen ==
    /\ header_len(header) =
          4 + 4 * PresentCount(header)
            + 10 * (IF header.extended_header.some THEN 1 ELSE 0)
    /\ (pc = "written" /\ write_result.kind = "Ok")
          => Len(sink.bytes) = header_len(header)

\* a header with the session id as its only optional field was written
C19_Witness ==
    /\ pc = "written"
    /\ write_result.kind = "Ok"
    /\ header.session_id.some
    /\ ~header.ecu_id.some /\ ~header.timestamp.some
    /\ ~header.extended_header.some
    /\ Len(sink.bytes) = 8

\* ------------------------------------------------------------------------
\* C20: wire layout of the encoded header.  Byte 0 holds the flags (bit0
\* extended header, bit1 big_endian, bit2 ecu_id, bit3 session_id, bit4
\* timestamp) and the version in bits 5-7, byte 1 the message counter,
\* bytes 2-3 the length in big-endian order whatever big_endian is; the
\* present fields follow in the order ecu_id, session_id, timestamp (4
\* bytes big-endian each), message_info, number_of_arguments,
\* application_id, context_id; a field is in the bytes exactly when its
\* flag bit is set.
\* ------------------------------------------------------------------------

\* the <<hi, lo>> pair of the four bytes after zero-based position p
U32At(b, p) == <<b[p + 1] * 256 + b[p + 2], b[p + 3] * 256 + b[p + 4]>>

B2I(x) == IF x THEN 1 ELSE 0

C20_Layout(h, b) ==
    LET p_ecu == 4
        p_ses == p_ecu + 4 * Bit(b[1], 2)
        p_ts  == p_ses + 4 * Bit(b[1], 3)
        p_ext == p_ts + 4 * Bit(b[1], 4)
    IN  /\ Bit(b[1], 0) = B2I(h.extended_header.some)
        /\ Bit(b[1], 1) = B2I(h.big_endian)
        /\ Bit(b[1], 2) = B2I(h.ecu_id.some)
        /\ Bit(b[1], 3) = B2I(h.session_id.some)
        /\ Bit(b[1], 4) = B2I(h.timestamp.some)
        /\ b[1] \div 32 = h.version
        /\ b[2] = h.message_counter
        /\ b[3] = h.length \div 256 /\ b[4] = h.length % 256
        /\ h.ecu_id.some => U32At(b, p_ecu) = h.ecu_id.value
        /\ h.session_id.some => U32At(b, p_ses) = h.session_id.value
        /\ h.timestamp.some => U32At(b, p_ts) = h.timestamp.value
        /\ h.extended_header.some =>
              /\ b[p_ext + 1] = h.extended_header.value.message_info
              /\ b[p_ext + 2] = h.extended_header.value.number_of_arguments
              /\ U32At(b, p_ext + 2) = h.extended_header.value.application_id
              /\ U32At(b, p_ext + 6) = h.extended_header.value.context_id
        /\ Len(b) = p_ext + 10 * Bit(b[1], 0)

C20_WireLayout ==
    (pc = "written" /\ write_result.kind = "Ok") => C20_Layout(header, sink.bytes)

\* a little-endian header with every field present, distinct ecu and
\* session ids and a length whose two bytes differ was written
C20_Witness ==
    /\ pc = "written"
    /\ write_result.kind = "Ok"
    /\ ~header.big_endian
    /\ header.length = 258
    /\ header.ecu_id.some /\ header.session_id.some /\ header.timestamp.some
    /\ header.extended_header.some
    /\ header.ecu_id # header.session_id
    /\ header.extended_header.value.message_info = 65

\* ------------------------------------------------------------------------
\* Verbose flag: a header is asked whether it is verbose and the flag of
\* its extended header is set and cleared (tests::ext_set_is_verbose,
\* tests::is_verbose)
\* ------------------------------------------------------------------------

\* message_info values with the verbose bit and the other bits in every
\* combination
MessageInfos == {0, 1, 2, 64, 65, 254, 255}

FlagExtValues ==
    [message_info : MessageInfos, number_of_arguments : {0, 2},
     application_id : {<<4370, 13124>>}, context_id : {<<21862, 30600>>}]

FlagHeaderSet ==
    [big_endian : {FALSE}, version : {1}, message_counter : {165},
     length : {258}, ecu_id : {None}, session_id : {Some(<<258, 772>>)},
     timestamp : {None},
     extended_header : {None} \cup { Some(e) : e \in FlagExtValues }]

InitFlags ==
    /\ pc = "flags"
    /\ header \in FlagHeaderSet
    /\ original = header
    /\ calls = <<>>
    /\ verbose_out = NoResult
    /\ payload = <<>>
    /\ sink = VecSink
    /\ write_result = NoResult
    /\ source = <<>>
    /\ read_result = NoResult
    /\ buffer = <<>>
    /\ packet = NoResult
    /\ header_out = NoResult
    /\ payload_out = NoResult
    /\ packets = <<>>
    /\ input = <<>>
    /\ iter = NoIterator
    /\ items = <<>>
    /\ NoCursor

\* header.verbose()
Verbose ==
    /\ pc = "flags"
    /\ verbose_out' = [kind |-> "Ok", value |-> verbose(header)]
    /\ UNCHANGED <<pc, codecVars, sliceVars, iterVars, cursorVars, original, calls>>

\* header.extended_header.as_mut().unwrap().set_is_verbose(b)
SetIsVerbose ==
    /\ pc = "flags"
    /\ header.extended_header.some
    /\ Len(calls) < MaxCalls
    /\ \E b \in BOOLEAN :
          /\ header' = [header EXCEPT
                           !.extended_header.value = set_is_verbose(@, b)]
          /\ calls' = Append(calls, b)
    /\ verbose_out' = NoResult
    /\ UNCHANGED <<pc, payload, sink, write_result, source, read_result,
                   sliceVars, iterVars, cursorVars, original>>

NextFlags == Verbose \/ SetIsVerbose

SpecFlags == InitFlags /\ [][NextFlags]_vars

\* ------------------------------------------------------------------------
\* C21: verbose().  verbose() is true if and only if an extended header is
\* present and bit 0 of its message_info is 1; a header without an extended
\* header is never verbose.
\* ------------------------------------------------------------------------

C21_Verbose ==
    (pc = "flags" /\ verbose_out.kind = "Ok") =>
        /\ verbose_out.value =
              (/\ header.extended_header.some
               /\ header.extended_header.value.message_info % 2 = 1)
        /\ ~header.extended_header.some => verbose_out.value = FALSE

\* a header with an extended header whose other bits are set but whose
\* verbose bit is clear was found not verbose
C21_Witness ==
    /\ pc = "flags"
    /\ verbose_out = [kind |-> "Ok", value |-> FALSE]
    /\ header.extended_header.some
    /\ header.extended_header.value.message_info = 254

\* ------------------------------------------------------------------------
\* C24: set_is_verbose changes only the verbose bit.  After
\* set_is_verbose(b), is_verbose() = b, bits 1-7 of message_info and every
\* other field are unchanged; a second call with the same argument changes
\* nothing; set_is_verbose(true) then set_is_verbose(false) on a header
\* whose verbose bit was 0 restores the original header.
\* ------------------------------------------------------------------------

C24_Step ==
    (pc = "flags" /\ calls' # calls) =>
        LET b == calls'[Len(calls')]
            e == header.extended_header.value
            f == header'.extended_header.value
        IN  /\ is_verbose(f) = b
            /\ f.message_info % 2 = B2I(b)
            /\ f.message_info \div 2 = e.message_info \div 2
            /\ f = [e EXCEPT !.message_info = f.message_info]
            /\ header' = [header EXCEPT !.extended_header.value = f]
            /\ (calls # <<>> /\ calls[Len(calls)] = b) => header' = header
            /\ (calls' = <<TRUE, FALSE>>
                    /\ original.extended_header.value.message_info % 2 = 0)
                  => header' = original

C24_OnlyVerboseBit == [][C24_Step]_vars

\* the flag of a header with message_info 254 was set and cleared again
C24_Witness ==
    /\ pc = "flags"
    /\ calls = <<TRUE, FALSE>>
    /\ original.extended_header.value.message_info = 254
    /\ header = original

\* ------------------------------------------------------------------------
\* C22: read_u16 endianness.  With at least 2 bytes b0, b1 at the front,
\* read_u16(true) returns 256*b0 + b1 and read_u16(false) returns
\* b0 + 256*b1; the flag changes only the value returned, not the bytes
\* consumed nor the error raised when fewer than 2 bytes remain.
\* ------------------------------------------------------------------------

C22_Step ==
    (pc = "cursor" /\ last_op'.name = "read_u16") =>
        LET e == last_op'.is_big_endian
            other == read_u16(Cursor, ~e, overflow_checks)
        IN  /\ Len(rest) >= 2 =>
                  /\ result'.kind = "Ok"
                  /\ result'.value = IF e THEN 256 * rest[1] + rest[2]
                                          ELSE rest[1] + 256 * rest[2]
            /\ rest' = other.rest
            /\ offset' = other.offset
            /\ Len(rest) < 2 => result' = other.result

C22_ReadU16Endianness == [][C22_Step]_vars

\* C22 for the calls whose sums stay within usize
C22_WithinWord == [][NoOverflow => C22_Step]_vars

\* ------------------------------------------------------------------------
\* C23: no out-of-bounds access on malformed input.  For every buffer,
\* from_slice returns Ok or an error; for every packet it returns, the
\* indices and ranges of header(), payload() and slice() lie inside the
\* slice (header() reads within the first header_size <= length bytes),
\* and the range SliceIterator::next cuts at, the length of the packet's
\* slice, lies inside the buffer.
\* ------------------------------------------------------------------------

\* the packet with its slice cut down to the header
HeaderOnly(p) == [p EXCEPT !.slice = SubSeq(p.slice, 1, p.header_size)]

C23_NoOutOfBounds ==
    pc = "sliced" =>
        /\ packet.kind \in {"Ok", "UnexpectedEndOfSlice", "LengthSmallerThenMinimum"}
        /\ packet.kind = "Ok" =>
              /\ packet.header_size <= Len(PacketSlice(packet))
              /\ Len(PacketSlice(packet)) <= Len(buffer)
              /\ PacketHeader(packet) # Panic
              /\ PacketPayload(packet) # Panic
              /\ header_out # Panic
              /\ payload_out # Panic
              /\ PacketHeader(HeaderOnly(packet)) = PacketHeader(packet)

\* an arbitrary buffer with every optional field flagged and the smallest
\* length from_slice accepts was sliced, and its header and payload read
C23_Witness ==
    /\ pc = "sliced"
    /\ header = DefaultHeader
    /\ packet.kind = "Ok"
    /\ packet.header_size = 26
    /\ Len(PacketSlice(packet)) = 30
    /\ Len(buffer) > 30
    /\ header_out.kind = "Ok"
    /\ payload_out.kind = "Ok"

\* ------------------------------------------------------------------------
\* C25: the two decoders agree.  For every packet from_slice returns,
\* header() equals the header DltHeader::read returns over slice(), read
\* consumes exactly header_size bytes of it, header().header_len() is
\* header_size and header().length is the length of slice().
\* ------------------------------------------------------------------------

C25_DecodersAgree ==
    (pc = "sliced" /\ packet.kind = "Ok" /\ header_out # NoResult) =>
        LET r == DltHeaderRead(PacketSlice(packet)) IN
        /\ header_out.kind = "Ok"
        /\ r.kind = "Ok"
        /\ header_out.value = r.header
        /\ r.pos = packet.header_size
        /\ header_len(header_out.value) = packet.header_size
        /\ header_out.value.length = Len(PacketSlice(packet))

\* the header of an arbitrary buffer with every optional field flagged and
\* version bits set was decoded
C25_Witness ==
    /\ pc = "sliced"
    /\ header = DefaultHeader
    /\ packet.kind = "Ok"
    /\ packet.header_size = 26
    /\ buffer[1] = 255
    /\ header_out.kind = "Ok"
    /\ header_out.value.version = 7

\* ------------------------------------------------------------------------
\* Iteration by a caller that keeps calling next()
\* ------------------------------------------------------------------------

SpecIterFair == SpecIter /\ WF_vars(IterNew) /\ WF_vars(IterNext)

\* the number of items yielded so far, the None results left out
Yielded(its) == Cardinality({ i \in 1..Len(its) : its[i] # End })

\* the last call of next() returned None
Ended == items # <<>> /\ items[Len(items)] = End

\* ------------------------------------------------------------------------
\* C26: iterator termination bound.  Over a buffer of L bytes, repeated
\* next() calls reach None after at most floor(L/8) + 1 items; every Ok
\* item shrinks the remaining buffer by the item's length, which is at
\* least 8 bytes.
\* ------------------------------------------------------------------------

C26_Step ==
    items' # items =>
        LET r == items'[Len(items')] IN
        /\ r.kind = "Ok" =>
              /\ Len(PacketSlice(r)) >= 8
              /\ Len(iter'.slice) = Len(iter.slice) - Len(PacketSlice(r))
              /\ Len(iter'.slice) < Len(iter.slice)
        /\ Yielded(items') <= (Len(input) \div 8) + 1

C26_TerminationBound ==
    /\ [][C26_Step]_vars
    /\ (pc = "iterating") ~> Ended

\* a buffer of 24 to 31 bytes yielded 4 items, one more than its eighths,
\* before None
C26_Witness ==
    /\ pc = "iterating"
    /\ Len(input) \div 8 = 3
    /\ Yielded(items) = 4
    /\ Ended

\* ------------------------------------------------------------------------
\* C27: iterator partition invariant.  After any number of next() calls
\* over a buffer b, the Ok items yielded so far are contiguous,
\* non-overlapping and in order: their concatenation is a prefix of b; and
\* while no error has been yielded, the lengths of the yielded slices plus
\* the length of the remaining slice is the length of b, the remaining
\* slice being the corresponding suffix of b.
\* ------------------------------------------------------------------------

\* the slices of the Ok items, one after the other
RECURSIVE ConcatOk(_)
ConcatOk(its) ==
    IF its = <<>> THEN <<>>
    ELSE (IF Head(its).kind = "Ok" THEN PacketSlice(Head(its)) ELSE <<>>)
         \o ConcatOk(Tail(its))

\* the number of bytes of the Ok items before item i
OkBytesBefore(i) == Len(ConcatOk(SubSeq(items, 1, i - 1)))

NoErrorYielded == \A i \in 1..Len(items) : ~IsError(items[i])

C27_Partition ==
    pc = "iterating" =>
        /\ \A i \in 1..Len(items) :
              items[i].kind = "Ok" =>
                  /\ \A j \in 1..(i - 1) : items[j].kind = "Ok"
                  /\ PacketSlice(items[i]) =
                        SubSeq(input, OkBytesBefore(i) + 1,
                               OkBytesBefore(i) + Len(PacketSlice(items[i])))
        /\ Len(ConcatOk(items)) <= Len(input)
        /\ ConcatOk(items) = SubSeq(input, 1, Len(ConcatOk(items)))
        /\ NoErrorYielded =>
              /\ Len(ConcatOk(items)) + Len(iter.slice) = Len(input)
              /\ iter.slice = SubSeq(input, Len(ConcatOk(items)) + 1, Len(input))

\* two messages of different lengths were yielded and more bytes remain
C27_Witness ==
    /\ pc = "iterating"
    /\ Len(items) = 2
    /\ items[1].kind = "Ok" /\ items[2].kind = "Ok"
    /\ Len(PacketSlice(items[1])) # Len(PacketSlice(items[2]))
    /\ iter.slice # <<>>

\* ------------------------------------------------------------------------
\* C28: cursor conservation invariant.  For a FieldSlicer made by
\* new(data, start), after any sequence of read operations, successful or
\* failing, offset + len(rest) = start + len(data), rest is a suffix of
\* data and offset never decreases.
\* ------------------------------------------------------------------------

C28_Step ==
    /\ offset' + Len(rest') = start + Len(data)
    /\ rest' = SubSeq(data, Len(data) - Len(rest') + 1, Len(data))
    /\ offset' >= offset

C28_Conservation == [][pc = "cursor" => C28_Step]_vars

\* C28 for the cursors whose start + len(data) stays within usize
C28_WithinWord ==
    [][(pc = "cursor" /\ start + Len(data) <= USIZE_MAX) => C28_Step]_vars

\* ------------------------------------------------------------------------
\* C30: no arithmetic overflow in cursor offsets.  For every start offset
\* and every buffer, each read operation returns a result value, and the
\* sums offset + consumed of the new offset and offset + required size,
\* offset + len(rest) of the error's minimum_size and actual_size never
\* exceed the machine-word range.
\* ------------------------------------------------------------------------

C30_Step ==
    pc = "cursor" =>
        /\ result' # Panic
        /\ result'.kind = "Ok" => ~Overflows(offset, Consumed(last_op', rest))
        /\ TooShort =>
              /\ ~Overflows(offset, Needed(last_op', rest))
              /\ ~Overflows(offset, Len(rest))

C30_NoOverflow == [][C30_Step]_vars

\* C30 for the calls whose sums stay within usize: no call panics
C30_WithinWord ==
    [][(pc = "cursor" /\ NoOverflow
            /\ ~Overflows(offset, Needed(last_op', rest)))
         => result' # Panic]_vars

\* ------------------------------------------------------------------------
\* Header decode first: DltHeader::read runs over arbitrary bytes and the
\* header it returns is written into a Vec
\* ------------------------------------------------------------------------

\* every header type byte, with the lengths 0 and 0x0102, cut to n bytes
DecodeSources ==
    { RawBuffer(t, l, n) : t \in 0..255, l \in {0, 258}, n \in 0..MaxBuf }

InitDecode ==
    /\ pc = "received"
    /\ source \in DecodeSources
    /\ header = DefaultHeader
    /\ payload = <<>>
    /\ sink = VecSink
    /\ write_result = NoResult
    /\ read_result = NoResult
    /\ buffer = <<>>
    /\ packet = NoResult
    /\ header_out = NoResult
    /\ payload_out = NoResult
    /\ packets = <<>>
    /\ input = <<>>
    /\ iter = NoIterator
    /\ items = <<>>
    /\ NoCursor
    /\ NoFlags

\* DltHeader::read(&mut Cursor::new(&source[..]))
Decode ==
    /\ pc = "received"
    /\ read_result' = DltHeaderRead(source)
    /\ pc' = "decoded"
    /\ UNCHANGED <<header, payload, sink, write_result, source, sliceVars,
                   iterVars, cursorVars, flagVars>>

\* header.write(&mut Vec::new()) on the header read
Encode ==
    /\ pc = "decoded"
    /\ read_result.kind = "Ok"
    /\ header' = read_result.header
    /\ LET w == DltHeaderWrite(read_result.header, sink)
       IN  /\ sink' = w.sink
           /\ write_result' = w.result
    /\ pc' = "encoded"
    /\ UNCHANGED <<payload, source, read_result, sliceVars, iterVars,
                   cursorVars, flagVars>>

NextDecode == Decode \/ Encode

SpecDecode == InitDecode /\ [][NextDecode]_vars

\* ------------------------------------------------------------------------
\* C29: reverse round-trip.  For every byte sequence on which
\* DltHeader::read succeeds, the decoded header has version <= 7, write on
\* it does not fail with VersionTooLarge, and the bytes it writes are the
\* bytes read consumed.
\* ------------------------------------------------------------------------

C29_ReverseRoundTrip ==
    /\ (pc \in {"decoded", "encoded"} /\ read_result.kind = "Ok")
          => read_result.header.version <= 7
    /\ pc = "encoded" =>
          /\ write_result.kind = "Ok"
          /\ sink.bytes = SubSeq(source, 1, read_result.pos)

\* a source with every bit of its header type set and bytes after the
\* header was decoded and written back
C29_Witness ==
    /\ pc = "encoded"
    /\ source[1] = 255
    /\ read_result.pos = 26
    /\ Len(source) > 26
    /\ Len(sink.bytes) = 26

====
